---- MODULE Spec2Model ----
(***************************************************************************)
(* Model of the transaction-scoped query facade of genji (db.go): DB.View, *)
(* DB.Update, DB.Exec, DB.Query, DB.QueryDocument and the Tx methods       *)
(* Query, QueryDocument and Exec, over an engine transaction that follows  *)
(* the state machine active -> committed | rolled-back.                    *)
(***************************************************************************)
EXTENDS Integers, FiniteSets, Sequences, TLC

VARIABLES
    store,      \* persisted database state: the set of documents on disk
    tx,         \* the transaction in flight: [state, writable, work]
    pc,         \* position of the caller: idle, fn, commit, deferred, cursor, done
    op,         \* the facade operation in progress or last completed
    pre,        \* persisted state when the current facade call started
    fnErr,      \* what the callback returned ("none" before it returns)
    ret,        \* the return value of the facade call ("none" until set)
    cur,        \* the result cursor of the last query: [state, rows, implicit, closes]
    doc,        \* the document handed back by the last QueryDocument
    callErr,    \* the error of the last Tx method the callback called
    commits,    \* number of Commit calls issued by the facade helper itself
    rollbacks,  \* number of Rollback calls issued by the facade helper itself
    resolved,   \* number of active -> terminal transitions of tx in this call
    txAtReturn, \* state of tx at the moment the callback returned
    lastTerm,   \* record of the last Commit/Rollback applied to a terminal tx
    commitErr,  \* what the helper's own Commit returned ("none" before it)
    fnCall,     \* the last Tx method the callback called
    table,      \* the name ViewTable/UpdateTable has yet to look up, or failed
                \* to look up ("none" in View/Update and once the table is found)
    fnInvoked,  \* whether the caller's callback has been invoked in this call
    deferErr,   \* what the deferred Rollback returned ("none" before it runs)
    panicked,   \* whether the callback panicked instead of returning
    args        \* the inputs of the last query call: [q, begin, first, scan, close]

vars == <<store, tx, pc, op, pre, fnErr, ret, cur, doc, callErr, commits,
          rollbacks, resolved, txAtReturn, lastTerm, commitErr, fnCall, table,
          fnInvoked, deferErr, panicked, args>>

----------------------------------------------------------------------------
(* Bounds *)

MaxDocs == 2

\* Number of concurrent callers of DB.Update in the concurrent specification.
NumCallers == 2

Docs == 1..MaxDocs

----------------------------------------------------------------------------
(* Values *)

Nil == "nil"
ErrBegin == "TransactionError(begin)"
ErrCommit == "TransactionError(commit)"
ErrRollback == "TransactionError(rollback)"
ErrTxDone == "TransactionError(terminated)"
ErrReadOnly == "ExecError(read-only)"
ErrExec == "ExecError(duplicate)"
ErrParse == "ParseError"
ErrFirst == "ExecError(first)"
ErrScan == "ScanError"
ErrDocumentNotFound == "DocumentNotFound"
ErrFn == "CallbackError"
ErrTableNotFound == "TableNotFound"

Terminal == {"committed", "rolledback"}

NoTx == [state |-> "none", writable |-> FALSE, work |-> {}, base |-> {}]

NoResult == [state |-> "none", rows |-> {}, implicit |-> FALSE, closes |-> 0]

NilDoc == [kind |-> "nil", val |-> 0]

NoTerm == [call |-> "none", before |-> NoTx, after |-> NoTx, storeBefore |-> {},
           storeAfter |-> {}, err |-> Nil]

Queries ==
    {[kind |-> "bad", d |-> 0], [kind |-> "select", d |-> 0]}
        \cup {[kind |-> "insert", d |-> x] : x \in Docs}
        \cup {[kind |-> "delete", d |-> x] : x \in Docs}

NoArgs == [q |-> [kind |-> "none", d |-> 0], begin |-> TRUE, first |-> TRUE,
           scan |-> TRUE, close |-> TRUE]

\* The tables of the database, and the names a caller may ask for.
Tables == {"users"}

TableNames == {"users", "ghosts"}

Min(S) == CHOOSE x \in S : \A y \in S : x <= y

----------------------------------------------------------------------------
(* The engine transaction (database.Transaction), section 4.2 state machine *)

\* database.Database.Begin: a new active transaction over the persisted state.
EngineBegin(writable, ok, s) ==
    IF ok
    THEN [t |-> [state |-> "active", writable |-> writable, work |-> s, base |-> s],
          err |-> Nil]
    ELSE [t |-> NoTx, err |-> ErrBegin]

\* Transaction.Commit: active write-mode and success -> committed and persisted;
\* active and failure (or read-only) -> still active; terminal -> no-op.
Commit(t, s, ok) ==
    IF t.state = "active"
    THEN IF t.writable /\ ok
         THEN [t |-> [t EXCEPT !.state = "committed"], store |-> t.work, err |-> Nil]
         ELSE [t |-> t, store |-> s, err |-> ErrCommit]
    ELSE [t |-> t, store |-> s, err |-> IF ok THEN Nil ELSE ErrTxDone]

\* A Rollback that is not idempotent: it undoes a committed transaction too.
RollbackNotIdempotent(t, s, ok) ==
    IF t.state \in {"active", "committed"}
    THEN [t |-> [t EXCEPT !.state = "rolledback"],
          store |-> IF t.state = "committed" THEN t.base ELSE s,
          err |-> IF ok THEN Nil ELSE ErrRollback]
    ELSE [t |-> t, store |-> s, err |-> ErrTxDone]

\* Transaction.Rollback: active -> rolled-back, the working copy is dropped and
\* the persisted state is left alone; terminal -> no-op, no error.
Rollback(t, s, ok) ==
    IF t.state = "active"
    THEN [t |-> [t EXCEPT !.state = "rolledback"], store |-> s,
          err |-> IF ok THEN Nil ELSE ErrRollback]
    ELSE [t |-> t, store |-> s, err |-> Nil]

\* 1 when the call moved the transaction from active to a terminal state.
Resolves(t, u) == IF t.state = "active" /\ u.state \in Terminal THEN 1 ELSE 0

\* History of a Commit/Rollback applied to an already terminal transaction.
TermRecord(call, t, u, s, s2, e) ==
    IF t.state \in Terminal
    THEN [call |-> call, before |-> t, after |-> u, storeBefore |-> s,
          storeAfter |-> s2, err |-> e]
    ELSE lastTerm

----------------------------------------------------------------------------
(* DB.Begin, DB.View, DB.Update *)

\* DB.Begin wraps the engine transaction in a Tx, or returns the error.
Begin(writable, ok, s) ==
    LET b == EngineBegin(writable, ok, s)
    IN  IF b.err # Nil THEN [t |-> NoTx, err |-> b.err] ELSE [t |-> b.t, err |-> Nil]

ViewWritableMutant == TRUE

\* View: db.Begin(false)
ViewWritable == FALSE

\* Update: db.Begin(true)
UpdateWritable == TRUE

\* A facade call starts when the caller holds no call in progress.
Ready == pc = "idle"

\* What every facade call resets when it starts.
StartCall(name) ==
    /\ Ready
    /\ op' = name
    /\ pre' = store
    /\ fnErr' = "none"
    /\ callErr' = Nil
    /\ commits' = 0
    /\ rollbacks' = 0
    /\ resolved' = 0
    /\ txAtReturn' = "none"
    /\ lastTerm' = NoTerm
    /\ commitErr' = "none"
    /\ fnCall' = "none"
    /\ deferErr' = "none"
    /\ panicked' = FALSE

AfterBeginIgnoresError(e, tb) == IF tb = "none" THEN "fn" ELSE "lookup"

\* View, Update: if Begin failed return its error; else defer Rollback and
\* call fn, which for ViewTable/UpdateTable starts with the table lookup.
AfterBegin(e, tb) ==
    IF e # Nil THEN "done" ELSE IF tb = "none" THEN "fn" ELSE "lookup"

\* The first lines of View and Update: Begin, return its error, else run fn.
HelperBegin(name, writable, ok, tb) ==
    /\ StartCall(name)
    /\ cur' = NoResult
    /\ doc' = NilDoc
    /\ args' = [NoArgs EXCEPT !.begin = ok]
    /\ table' = tb
    /\ LET b == Begin(writable, ok, store)
       IN  /\ tx' = b.t
           /\ ret' = IF b.err # Nil THEN b.err ELSE "none"
           /\ pc' = AfterBegin(b.err, tb)
           /\ fnInvoked' = (AfterBegin(b.err, tb) = "fn")
    /\ UNCHANGED store

ViewBegin(ok) == HelperBegin("View", ViewWritable, ok, "none")

UpdateBegin(ok) == HelperBegin("Update", UpdateWritable, ok, "none")

UpdateAfterFnAlwaysCommit(e) == "commit"

\* Update: if fn failed return its error, else go on to tx.Commit().
UpdateAfterFn(e) == IF e # Nil THEN "deferred" ELSE "commit"

\* View: return fn(tx) -- the deferred Rollback is all that is left.
ViewAfterFn(e) == "deferred"

\* The callback returns e; View returns it, Update returns it when not nil.
FnReturn(e) ==
    /\ pc = "fn"
    /\ fnErr' = e
    /\ txAtReturn' = tx.state
    /\ pc' = IF op = "View" THEN ViewAfterFn(e) ELSE UpdateAfterFn(e)
    /\ ret' = IF op = "View" \/ e # Nil THEN e ELSE "none"
    /\ UNCHANGED <<store, tx, op, pre, cur, doc, callErr, commits, rollbacks,
                   resolved, lastTerm, commitErr, fnCall, args,
                   table, fnInvoked, deferErr, panicked>>

\* Transaction.GetTable: the table of that name, or TableNotFound.
GetTable(t, name) == IF name \in Tables THEN Nil ELSE ErrTableNotFound

ViewTableBegin(name, ok) == HelperBegin("View", ViewWritable, ok, name)

UpdateTableBegin(name, ok) == HelperBegin("Update", UpdateWritable, ok, name)

LookupAfterIgnoresError(e) == "fn"

\* ViewTable, UpdateTable: if GetTable failed return its error, else call fn.
LookupAfter(e) == IF e # Nil THEN "return" ELSE "fn"

\* The closure ViewTable/UpdateTable hands to View/Update looks the table up;
\* on failure it returns the lookup error, else it invokes fn(tx, tb).
TableLookup ==
    /\ pc = "lookup"
    /\ LET e == GetTable(tx, table)
       IN  IF LookupAfter(e) = "fn"
           THEN /\ pc' = "fn"
                /\ fnInvoked' = TRUE
                /\ table' = IF e = Nil THEN "none" ELSE table
                /\ UNCHANGED <<fnErr, txAtReturn, ret>>
           ELSE /\ fnErr' = e
                /\ txAtReturn' = tx.state
                /\ pc' = IF op = "View" THEN ViewAfterFn(e) ELSE UpdateAfterFn(e)
                /\ ret' = IF op = "View" \/ e # Nil THEN e ELSE "none"
                /\ UNCHANGED <<fnInvoked, table>>
    /\ UNCHANGED <<store, tx, op, pre, cur, doc, callErr, commits, rollbacks,
                   resolved, lastTerm, commitErr, fnCall, deferErr, panicked, args>>

PanicAfterFnNoDefer == "done"

\* View, Update: defer tx.Rollback() -- a deferred call runs when fn panics.
PanicAfterFn == "deferred"

\* The callback panics: the helper unwinds through its deferred call and the
\* panic goes on to the caller; nothing is returned.
FnPanic ==
    /\ pc = "fn"
    /\ panicked' = TRUE
    /\ txAtReturn' = tx.state
    /\ pc' = PanicAfterFn
    /\ UNCHANGED <<store, tx, op, pre, fnErr, ret, cur, doc, callErr, commits,
                   rollbacks, resolved, lastTerm, commitErr, fnCall, table,
                   fnInvoked, deferErr, args>>

UpdateReturnNil(e) == Nil

\* Update: return tx.Commit()
UpdateReturn(e) == e

\* Update's own Commit, after fn returned nil.
UpdateCommit(ok) ==
    /\ pc = "commit"
    /\ LET c == Commit(tx, store, ok)
       IN  /\ tx' = c.t
           /\ store' = c.store
           /\ ret' = UpdateReturn(c.err)
           /\ commitErr' = c.err
           /\ resolved' = resolved + Resolves(tx, c.t)
           /\ lastTerm' = TermRecord("Commit", tx, c.t, store, c.store, c.err)
    /\ commits' = commits + 1
    /\ pc' = "deferred"
    /\ UNCHANGED <<op, pre, fnErr, cur, doc, callErr, rollbacks, txAtReturn, fnCall,
                   args,
                   table, fnInvoked, deferErr, panicked>>

NoDeferredRollback(t, s, ok) == [t |-> t, store |-> s, err |-> Nil]

\* View: defer tx.Rollback()
ViewDeferred(t, s, ok) == Rollback(t, s, ok)

\* Update: defer tx.Rollback()
UpdateDeferred(t, s, ok) == Rollback(t, s, ok)

DeferredReturnReports(r, e) == IF r \in {Nil, "none"} /\ e # Nil THEN e ELSE r

\* View, Update: defer tx.Rollback() -- the value the helper was about to
\* return is what it returns; the error of the deferred call is dropped.
DeferredReturn(r, e) == r

\* The deferred Rollback runs, its error is dropped, and the helper returns.
Deferred(ok) ==
    /\ pc = "deferred"
    /\ LET r == IF op = "View" THEN ViewDeferred(tx, store, ok)
                ELSE UpdateDeferred(tx, store, ok)
       IN  /\ tx' = r.t
           /\ store' = r.store
           /\ resolved' = resolved + Resolves(tx, r.t)
           /\ lastTerm' = TermRecord("Rollback", tx, r.t, store, r.store, r.err)
           /\ deferErr' = r.err
           /\ ret' = DeferredReturn(ret, r.err)
    /\ rollbacks' = rollbacks + 1
    /\ pc' = "done"
    /\ UNCHANGED <<op, pre, fnErr, cur, doc, callErr, commits, txAtReturn,
                   commitErr, fnCall, args, table, fnInvoked, panicked>>

----------------------------------------------------------------------------
(* Parser, executor and result cursor (collaborators of db.go) *)

\* parser.ParseQuery: the parse error of a malformed text, no side effect.
ParseQuery(q) == IF q.kind = "bad" THEN ErrParse ELSE Nil

\* Running a parsed query inside transaction t: a select yields the documents
\* of the working copy; insert and delete change the working copy and yield no
\* row; a write is rejected in a read-only or terminated transaction.
PlanExec(t, q) ==
    IF t.state # "active"
    THEN [err |-> ErrTxDone, t |-> t, rows |-> {}]
    ELSE IF q.kind = "select"
    THEN [err |-> Nil, t |-> t, rows |-> t.work]
    ELSE IF ~t.writable
    THEN [err |-> ErrReadOnly, t |-> t, rows |-> {}]
    ELSE IF q.kind = "insert"
    THEN IF q.d \in t.work
         THEN [err |-> ErrExec, t |-> t, rows |-> {}]
         ELSE [err |-> Nil, t |-> [t EXCEPT !.work = @ \cup {q.d}], rows |-> {}]
    ELSE [err |-> Nil, t |-> [t EXCEPT !.work = @ \ {q.d}], rows |-> {}]

OpenResult(rows, implicit) ==
    [state |-> "open", rows |-> rows, implicit |-> implicit, closes |-> 0]

\* Query.Run on the database: begins an implicit transaction whose mode is
\* inferred from the query, executes, and hands back a cursor that owns it.
Run(s, q, bok) ==
    LET b == EngineBegin(q.kind # "select", bok, s)
    IN  IF b.err # Nil
        THEN [err |-> b.err, t |-> NoTx, res |-> NoResult]
        ELSE LET x == PlanExec(b.t, q)
             IN  IF x.err # Nil
                 THEN [err |-> x.err, t |-> Rollback(b.t, s, TRUE).t, res |-> NoResult]
                 ELSE [err |-> Nil, t |-> x.t, res |-> OpenResult(x.rows, TRUE)]

\* Result.Close: closes the cursor; a cursor that owns an implicit transaction
\* finalizes it (commit when writable, rollback otherwise or when commit fails).
Close(res, t, s, ok) ==
    IF res.state = "none"
    THEN [res |-> res, t |-> t, store |-> s, err |-> Nil]
    ELSE IF res.state = "closed"
    THEN [res |-> [res EXCEPT !.closes = @ + 1], t |-> t, store |-> s, err |-> Nil]
    ELSE LET closed == [res EXCEPT !.state = "closed", !.closes = @ + 1]
         IN  IF ~res.implicit
             THEN [res |-> closed, t |-> t, store |-> s, err |-> Nil]
             ELSE IF t.writable
             THEN LET c == Commit(t, s, ok)
                  IN  [res |-> closed, t |-> Rollback(c.t, c.store, TRUE).t,
                       store |-> c.store, err |-> c.err]
             ELSE LET r == Rollback(t, s, ok)
                  IN  [res |-> closed, t |-> r.t, store |-> r.store, err |-> r.err]

\* Stream.First: the first document as a live view of the cursor, a nil
\* document and no error at end of sequence, or a read error.
First(res, ok) ==
    IF ~ok THEN [doc |-> NilDoc, err |-> ErrFirst]
    ELSE IF res.rows = {} THEN [doc |-> NilDoc, err |-> Nil]
    ELSE [doc |-> [kind |-> "live", val |-> Min(res.rows)], err |-> Nil]

\* FieldBuffer.ScanDocument: copies a live document into an owned buffer.
ScanDocument(r, ok) ==
    IF ok THEN [doc |-> [kind |-> "detached", val |-> r.val], err |-> Nil]
    ELSE [doc |-> NilDoc, err |-> ErrScan]

----------------------------------------------------------------------------
(* DB.Query, DB.Exec, DB.QueryDocument *)

DBQueryRunsUnparsed(s, q, bok) ==
    LET r == Run(s, q, bok)
    IN  IF ParseQuery(q) # Nil
        THEN [err |-> ParseQuery(q), t |-> r.t, res |-> r.res]
        ELSE r

\* DB.Query: parse, return the parse error, else run against the database.
DBQuery(s, q, bok) ==
    IF ParseQuery(q) # Nil
    THEN [err |-> ParseQuery(q), t |-> NoTx, res |-> NoResult]
    ELSE Run(s, q, bok)

DBExecNoClose(s, q, o) ==
    LET r == DBQuery(s, q, o.begin)
    IN  [err |-> r.err, t |-> r.t, res |-> r.res, store |-> s]

\* DB.Exec: Query, return its error, else return res.Close().
DBExec(s, q, o) ==
    LET r == DBQuery(s, q, o.begin)
    IN  IF r.err # Nil
        THEN [err |-> r.err, t |-> r.t, res |-> r.res, store |-> s]
        ELSE Close(r.res, r.t, s, o.close)

DBFoundNoNilCheck(f) == Nil

\* DB.QueryDocument: if r == nil, return ErrDocumentNotFound.
DBFound(f) == IF f.doc = NilDoc THEN ErrDocumentNotFound ELSE Nil

DBQueryDocumentClosesOnSuccessOnly(s, q, o) ==
    LET r == DBQuery(s, q, o.begin)
    IN  IF r.err # Nil
        THEN [doc |-> NilDoc, err |-> r.err, t |-> r.t, res |-> r.res, store |-> s]
        ELSE LET f == First(r.res, o.first)
                 sc == ScanDocument(f.doc, o.scan)
                 c == Close(r.res, r.t, s, o.close)
             IN  IF f.err # Nil \/ DBFound(f) # Nil \/ sc.err # Nil
                 THEN [doc |-> NilDoc,
                       err |-> IF f.err # Nil THEN f.err
                               ELSE IF DBFound(f) # Nil THEN DBFound(f) ELSE sc.err,
                       t |-> r.t, res |-> r.res, store |-> s]
                 ELSE [doc |-> sc.doc, err |-> Nil, t |-> c.t, res |-> c.res,
                       store |-> c.store]

\* DB.QueryDocument: Query, defer Close, First, nil check, scan into a buffer.
DBQueryDocument(s, q, o) ==
    LET r == DBQuery(s, q, o.begin)
    IN  IF r.err # Nil
        THEN [doc |-> NilDoc, err |-> r.err, t |-> r.t, res |-> r.res, store |-> s]
        ELSE LET f == First(r.res, o.first)
                 sc == ScanDocument(f.doc, o.scan)
                 out == IF f.err # Nil THEN [doc |-> NilDoc, err |-> f.err]
                        ELSE IF DBFound(f) # Nil THEN [doc |-> NilDoc, err |-> DBFound(f)]
                        ELSE IF sc.err # Nil THEN [doc |-> NilDoc, err |-> sc.err]
                        ELSE [doc |-> sc.doc, err |-> Nil]
                 c == Close(r.res, r.t, s, o.close)
             IN  [doc |-> out.doc, err |-> out.err, t |-> c.t, res |-> c.res,
                  store |-> c.store]

----------------------------------------------------------------------------
(* Tx.Query, Tx.Exec, Tx.QueryDocument *)

TxQueryOwnTransaction(t, q) ==
    IF ParseQuery(q) # Nil
    THEN [err |-> ParseQuery(q), t |-> t, res |-> NoResult]
    ELSE Run(t.base, q, TRUE)

\* Tx.Query: parse, return the parse error, else execute inside tx.
TxQuery(t, q) ==
    IF ParseQuery(q) # Nil
    THEN [err |-> ParseQuery(q), t |-> t, res |-> NoResult]
    ELSE LET x == PlanExec(t, q)
         IN  IF x.err # Nil
             THEN [err |-> x.err, t |-> x.t, res |-> NoResult]
             ELSE [err |-> Nil, t |-> x.t, res |-> OpenResult(x.rows, FALSE)]

\* Tx.Exec: Query, return its error, else return res.Close().
TxExec(t, s, q) ==
    LET r == TxQuery(t, q)
    IN  IF r.err # Nil
        THEN [err |-> r.err, t |-> r.t, res |-> r.res, store |-> s]
        ELSE Close(r.res, r.t, s, TRUE)

\* Tx.QueryDocument: Query, defer Close, First, nil check, return r itself.
TxQueryDocument(t, s, q, fok) ==
    LET r == TxQuery(t, q)
    IN  IF r.err # Nil
        THEN [doc |-> NilDoc, err |-> r.err, t |-> r.t, res |-> r.res, store |-> s]
        ELSE LET f == First(r.res, fok)
                 out == IF f.err # Nil THEN [doc |-> NilDoc, err |-> f.err]
                        ELSE IF f.doc = NilDoc
                        THEN [doc |-> NilDoc, err |-> ErrDocumentNotFound]
                        ELSE [doc |-> f.doc, err |-> Nil]
                 c == Close(r.res, r.t, s, TRUE)
             IN  [doc |-> out.doc, err |-> out.err, t |-> c.t, res |-> c.res,
                  store |-> c.store]

----------------------------------------------------------------------------
(* Actions: facade calls made outside any callback *)

Outcomes == [begin : BOOLEAN, first : BOOLEAN, scan : BOOLEAN, close : BOOLEAN]

\* Exec and Query never read a row: only Begin and Close can go either way.
ExecOutcomes == {o \in Outcomes : o.first /\ o.scan}

CallArgs(q, o) ==
    [q |-> q, begin |-> o.begin, first |-> o.first, scan |-> o.scan, close |-> o.close]

\* A call that starts outside a callback and returns in one step.
Atomic(name, q, o, r, d) ==
    /\ StartCall(name)
    /\ table' = "none"
    /\ fnInvoked' = FALSE
    /\ args' = CallArgs(q, o)
    /\ store' = r.store
    /\ tx' = r.t
    /\ cur' = r.res
    /\ doc' = d
    /\ ret' = r.err
    /\ pc' = "done"

CallDBExec(q, o) == Atomic("Exec", q, o, DBExec(store, q, o), NilDoc)

CallDBQueryDocument(q, o) ==
    LET r == DBQueryDocument(store, q, o)
    IN  Atomic("QueryDocument", q, o, r, r.doc)

\* db.Query by a caller who keeps the cursor: the call returns with it open.
CallDBQuery(q, o) ==
    /\ StartCall("Query")
    /\ LET r == DBQuery(store, q, o.begin)
       IN  /\ tx' = r.t
           /\ cur' = r.res
           /\ ret' = r.err
           /\ pc' = IF r.err # Nil THEN "done" ELSE "cursor"
    /\ doc' = NilDoc
    /\ table' = "none"
    /\ fnInvoked' = FALSE
    /\ args' = CallArgs(q, o)
    /\ UNCHANGED store

\* The caller closes the cursor db.Query gave it, right after the call.
ResultClose ==
    /\ pc = "cursor"
    /\ LET c == Close(cur, tx, store, args.close)
       IN  /\ cur' = c.res
           /\ tx' = c.t
           /\ store' = c.store
           /\ ret' = c.err
    /\ pc' = "done"
    /\ UNCHANGED <<op, pre, fnErr, doc, callErr, commits, rollbacks, resolved,
                   txAtReturn, lastTerm, commitErr, fnCall, args,
                   table, fnInvoked, deferErr, panicked>>

----------------------------------------------------------------------------
(* Actions: what the callback of View or Update does with its Tx *)

FnExec(q) ==
    /\ pc = "fn"
    /\ LET r == TxExec(tx, store, q)
       IN  /\ tx' = r.t
           /\ store' = r.store
           /\ cur' = r.res
           /\ callErr' = r.err
    /\ doc' = NilDoc
    /\ fnCall' = "Exec"
    /\ args' = [NoArgs EXCEPT !.q = q]
    /\ UNCHANGED <<pc, op, pre, fnErr, ret, commits, rollbacks, resolved,
                   txAtReturn, lastTerm, commitErr,
                   table, fnInvoked, deferErr, panicked>>

FnQueryDocument(q, fok) ==
    /\ pc = "fn"
    /\ LET r == TxQueryDocument(tx, store, q, fok)
       IN  /\ tx' = r.t
           /\ store' = r.store
           /\ cur' = r.res
           /\ doc' = r.doc
           /\ callErr' = r.err
    /\ fnCall' = "QueryDocument"
    /\ args' = [NoArgs EXCEPT !.q = q, !.first = fok]
    /\ UNCHANGED <<pc, op, pre, fnErr, ret, commits, rollbacks, resolved,
                   txAtReturn, lastTerm, commitErr,
                   table, fnInvoked, deferErr, panicked>>

\* The callback calls tx.Query and keeps the cursor; closing it is not mandatory.
FnQuery(q) ==
    /\ pc = "fn"
    /\ LET r == TxQuery(tx, q)
       IN  /\ tx' = r.t
           /\ cur' = r.res
           /\ callErr' = r.err
    /\ doc' = NilDoc
    /\ fnCall' = "Query"
    /\ args' = [NoArgs EXCEPT !.q = q]
    /\ UNCHANGED <<store, pc, op, pre, fnErr, ret, commits, rollbacks, resolved,
                   txAtReturn, lastTerm, commitErr, table, fnInvoked, deferErr,
                   panicked>>

\* The callback calls Commit on the transaction it was given.
FnCommit(ok) ==
    /\ pc = "fn"
    /\ LET c == Commit(tx, store, ok)
       IN  /\ tx' = c.t
           /\ store' = c.store
           /\ callErr' = c.err
           /\ resolved' = resolved + Resolves(tx, c.t)
           /\ lastTerm' = TermRecord("Commit", tx, c.t, store, c.store, c.err)
    /\ fnCall' = "Commit"
    /\ UNCHANGED <<pc, op, pre, fnErr, ret, cur, doc, commits, rollbacks,
                   txAtReturn, commitErr, args,
                   table, fnInvoked, deferErr, panicked>>

\* The callback calls Rollback on the transaction it was given.
FnRollback(ok) ==
    /\ pc = "fn"
    /\ LET r == Rollback(tx, store, ok)
       IN  /\ tx' = r.t
           /\ store' = r.store
           /\ callErr' = r.err
           /\ resolved' = resolved + Resolves(tx, r.t)
           /\ lastTerm' = TermRecord("Rollback", tx, r.t, store, r.store, r.err)
    /\ fnCall' = "Rollback"
    /\ UNCHANGED <<pc, op, pre, fnErr, ret, cur, doc, commits, rollbacks,
                   txAtReturn, commitErr, args,
                   table, fnInvoked, deferErr, panicked>>

----------------------------------------------------------------------------
(* Specification *)

\* The caller has looked at what the call returned and moves on.
CallerContinues ==
    /\ pc = "done"
    /\ pc' = "idle"
    /\ tx' = NoTx
    /\ op' = "none"
    /\ pre' = store
    /\ fnErr' = "none"
    /\ ret' = "none"
    /\ cur' = NoResult
    /\ doc' = NilDoc
    /\ callErr' = Nil
    /\ commits' = 0
    /\ rollbacks' = 0
    /\ resolved' = 0
    /\ txAtReturn' = "none"
    /\ lastTerm' = NoTerm
    /\ commitErr' = "none"
    /\ fnCall' = "none"
    /\ table' = "none"
    /\ fnInvoked' = FALSE
    /\ deferErr' = "none"
    /\ panicked' = FALSE
    /\ args' = NoArgs
    /\ UNCHANGED store

Init ==
    /\ store \in SUBSET Docs
    /\ tx = NoTx
    /\ pc = "idle"
    /\ op = "none"
    /\ pre = store
    /\ fnErr = "none"
    /\ ret = "none"
    /\ cur = NoResult
    /\ doc = NilDoc
    /\ callErr = Nil
    /\ commits = 0
    /\ rollbacks = 0
    /\ resolved = 0
    /\ txAtReturn = "none"
    /\ lastTerm = NoTerm
    /\ commitErr = "none"
    /\ fnCall = "none"
    /\ table = "none"
    /\ fnInvoked = FALSE
    /\ deferErr = "none"
    /\ panicked = FALSE
    /\ args = NoArgs

Next ==
    \/ \E ok \in BOOLEAN : ViewBegin(ok)
    \/ \E ok \in BOOLEAN : UpdateBegin(ok)
    \/ \E name \in TableNames, ok \in BOOLEAN : ViewTableBegin(name, ok)
    \/ \E name \in TableNames, ok \in BOOLEAN : UpdateTableBegin(name, ok)
    \/ TableLookup
    \/ FnPanic
    \/ \E e \in {Nil, ErrFn} : FnReturn(e)
    \/ \E ok \in BOOLEAN : UpdateCommit(ok)
    \/ \E ok \in BOOLEAN : Deferred(ok)
    \/ \E q \in Queries : FnExec(q)
    \/ \E q \in Queries : FnQuery(q)
    \/ \E q \in Queries, fok \in BOOLEAN : FnQueryDocument(q, fok)
    \/ \E ok \in BOOLEAN : FnCommit(ok)
    \/ \E ok \in BOOLEAN : FnRollback(ok)
    \/ \E q \in Queries, o \in ExecOutcomes : CallDBExec(q, o)
    \/ \E q \in Queries, o \in Outcomes : CallDBQueryDocument(q, o)
    \/ \E q \in Queries, o \in ExecOutcomes : CallDBQuery(q, o)
    \/ ResultClose
    \/ CallerContinues

Spec == Init /\ [][Next]_vars

----------------------------------------------------------------------------
(* Properties *)

\* The helper named `name` has begun a transaction and returned.
Returned(name) == pc = "done" /\ op = name /\ tx.state # "none"

\* C1: once Update has begun a transaction and returned, whatever fn returned
\* and whether Commit succeeded or failed, the transaction is committed or
\* rolled back, never still active.
C1_UpdateEndsTerminal == Returned("Update") => tx.state \in Terminal

\* Update returned after its Commit failed: the deferred Rollback ended the tx.
C1_Witness ==
    /\ Returned("Update")
    /\ fnErr = Nil
    /\ commitErr = ErrCommit
    /\ tx.state = "rolledback"

\* C2 as stated: when fn returns an error, Update never calls Commit, returns
\* that error, and the persisted state equals the state before the call.
C2_AsStated ==
    (Returned("Update") /\ fnErr = ErrFn)
        => (commits = 0 /\ ret = fnErr /\ store = pre)

\* C2 amended: when fn returns an error, Update never calls Commit and returns
\* that error; unless fn itself committed the transaction it was given, the
\* transaction ends rolled back and the persisted state equals the state
\* before the call, the writes of fn being discarded.
C2_FnErrorRollsBack ==
    (Returned("Update") /\ fnErr = ErrFn)
        => /\ commits = 0
           /\ ret = fnErr
           /\ txAtReturn # "committed" => (tx.state = "rolledback" /\ store = pre)

\* fn wrote inside the transaction, returned an error, and nothing persisted.
C2_Witness ==
    /\ Returned("Update")
    /\ fnErr = ErrFn
    /\ txAtReturn = "active"
    /\ tx.work # pre
    /\ store = pre

\* C3: when fn returns nil, Update calls Commit exactly once, only after fn
\* has returned, and returns exactly what Commit returned.
C3_CommitOnceAfterFn ==
    op = "Update"
        => /\ commits > 0 => fnErr = Nil
           /\ (pc \in {"deferred", "done"} /\ fnErr = Nil)
                  => (commits = 1 /\ commitErr # "none" /\ ret = commitErr)

\* fn returned nil, Commit failed, and Update returned the commit error.
C3_Witness ==
    /\ Returned("Update")
    /\ fnErr = Nil
    /\ commits = 1
    /\ ret = ErrCommit

\* C4: after Update's Commit succeeded, the deferred Rollback still runs and
\* undoes nothing: the transaction stays committed and the writes of fn are
\* the persisted state; every transaction Update began and returned from went
\* from active to terminal exactly once.
C4_CommitSurvivesDeferredRollback ==
    /\ Returned("Update") => resolved = 1
    /\ (Returned("Update") /\ txAtReturn = "active" /\ commitErr = Nil)
           => (tx.state = "committed" /\ store = tx.work /\ rollbacks = 1)

\* Update committed writes of fn and the deferred Rollback has run.
C4_Witness ==
    /\ Returned("Update")
    /\ txAtReturn = "active"
    /\ commitErr = Nil
    /\ rollbacks = 1
    /\ store # pre
    /\ lastTerm.call = "Rollback"

\* C5: View begins a read-only transaction, never calls Commit itself, ends
\* with the transaction rolled back whatever fn returns, and returns exactly
\* what fn returned.
C5_ViewRollsBack ==
    op = "View"
        => /\ commits = 0
           /\ tx.state # "none" => ~tx.writable
           /\ Returned("View")
                  => (tx.state = "rolledback" /\ rollbacks = 1 /\ ret = fnErr)

\* View returned the error of fn with the transaction rolled back by the defer.
C5_Witness ==
    /\ Returned("View")
    /\ fnErr = ErrFn
    /\ ret = ErrFn
    /\ txAtReturn = "active"
    /\ tx.state = "rolledback"

\* C6: whatever fn does with the read-only transaction View gives it, writes
\* and Commit included, the persisted state stays the one before the call, the
\* transaction never becomes committed, and a write is rejected with an error
\* and leaves the working copy alone.
C6_ViewPersistsNothing ==
    op = "View"
        => /\ store = pre
           /\ tx.state # "committed"
           /\ tx.state # "none" => tx.work = pre
           /\ (fnCall = "Exec" /\ args.q.kind \in {"insert", "delete"})
                  => callErr \in {ErrReadOnly, ErrTxDone}

\* View returned after fn tried to insert a document and was refused.
C6_Witness ==
    /\ Returned("View")
    /\ fnCall = "Exec"
    /\ args.q.kind = "insert"
    /\ callErr = ErrReadOnly
    /\ store = pre

\* C7: a Rollback of a transaction that is already rolled back, or already
\* committed, changes neither the transaction nor the persisted state and
\* returns no error.
C7_RollbackIdempotent ==
    lastTerm.call = "Rollback"
        => /\ lastTerm.after = lastTerm.before
           /\ lastTerm.storeAfter = lastTerm.storeBefore
           /\ lastTerm.err = Nil

\* The deferred Rollback of Update ran on a transaction whose Commit persisted
\* new documents.
C7_Witness ==
    /\ Returned("Update")
    /\ lastTerm.call = "Rollback"
    /\ lastTerm.before.state = "committed"
    /\ lastTerm.storeBefore # pre
    /\ store = lastTerm.storeBefore

\* The last QueryDocument (of DB, or of Tx inside a callback) parsed, executed
\* and got a cursor whose First succeeded.
QueryDocumentRan ==
    /\ \/ pc = "done" /\ op = "QueryDocument"
       \/ fnCall = "QueryDocument"
    /\ cur.state # "none"
    /\ args.first

\* What the last QueryDocument returned as its error.
QueryDocumentErr == IF op = "QueryDocument" THEN ret ELSE callErr

\* C8: a QueryDocument whose query parses, executes and yields zero rows
\* returns DocumentNotFound and a nil document; a QueryDocument that returns
\* no error returns a document of the result, never a nil or empty one.
C8_ZeroRowsNotFound ==
    /\ (QueryDocumentRan /\ cur.rows = {})
           => (QueryDocumentErr = ErrDocumentNotFound /\ doc = NilDoc)
    /\ ((op = "QueryDocument" /\ pc = "done") \/ fnCall = "QueryDocument")
           => (QueryDocumentErr = Nil => (doc # NilDoc /\ doc.val \in cur.rows))

\* DB.QueryDocument ran a select over an empty database.
C8_Witness ==
    /\ pc = "done"
    /\ op = "QueryDocument"
    /\ args.q.kind = "select"
    /\ cur.state = "closed"
    /\ cur.rows = {}
    /\ ret = ErrDocumentNotFound

\* C9: the document QueryDocument hands back is a detached copy, never a live
\* view of a cursor that is closed by the time QueryDocument returns.
C9_DocumentDetached ==
    ((op = "QueryDocument" /\ pc = "done") \/ fnCall = "QueryDocument")
        => ~(doc.kind = "live" /\ cur.state = "closed")

\* C10: db.Query followed at once by closing the result leaves the persisted
\* state, the implicit transaction and the cursor as db.Exec leaves them on
\* the same query with the same Begin and Close outcomes, and yields the same
\* error (the Query error, else the Close result).
C10_ExecIsQueryThenClose ==
    (pc = "done" /\ op = "Query")
        => LET e == DBExec(pre, args.q, args)
           IN  /\ store = e.store
               /\ tx = e.t
               /\ cur = e.res
               /\ ret = e.err

\* db.Query ran a write, and closing its result committed it.
C10_Witness ==
    /\ pc = "done"
    /\ op = "Query"
    /\ cur.state = "closed"
    /\ cur.closes = 1
    /\ tx.state = "committed"
    /\ store # pre
    /\ ret = Nil

\* C11: when the query text does not parse, db.Query, db.Exec and
\* db.QueryDocument return the parse error and have begun no transaction,
\* opened no cursor and left the persisted state as it was.
C11_ParseErrorTouchesNothing ==
    (pc = "done" /\ op \in {"Query", "Exec", "QueryDocument"}
       /\ ParseQuery(args.q) # Nil)
        => /\ ret = ErrParse
           /\ tx = NoTx
           /\ cur = NoResult
           /\ doc = NilDoc
           /\ store = pre

\* db.Exec returned the parse error of a malformed query over a non-empty store.
C11_Witness ==
    /\ pc = "done"
    /\ op = "Exec"
    /\ args.q.kind = "bad"
    /\ ret = ErrParse
    /\ store # {}

\* ViewTable/UpdateTable began a transaction and its table lookup failed.
LookupFailed ==
    /\ table # "none"
    /\ tx.state # "none"
    /\ pc # "lookup"
    /\ GetTable(tx, table) # Nil

\* C12: in ViewTable and UpdateTable, when the table lookup fails, fn is never
\* invoked, no Commit is attempted, the lookup error is what is returned, and
\* the transaction ends rolled back with the persisted state unchanged.
C12_LookupFailureShortCircuits ==
    LookupFailed
        => /\ ~fnInvoked
           /\ commits = 0
           /\ fnCall = "none"
           /\ ret = GetTable(tx, table)
           /\ store = pre
           /\ pc \in {"deferred", "done"}
           /\ pc = "done" => (tx.state = "rolledback" /\ rollbacks = 1)

\* UpdateTable on a table that does not exist returned TableNotFound.
C12_Witness ==
    /\ pc = "done"
    /\ op = "Update"
    /\ table = "ghosts"
    /\ ret = ErrTableNotFound
    /\ tx.state = "rolledback"
    /\ tx.writable
    /\ store = pre

\* View or Update began a transaction, its callback returned, and it returned.
ReturnedNormally ==
    /\ pc = "done"
    /\ op \in {"View", "Update"}
    /\ tx.state # "none"
    /\ ~panicked

\* C13 as stated: the error of the deferred Rollback of View and Update is
\* discarded only when an earlier error of fn or of Commit is there to report;
\* when fn returns nil and the Rollback fails, the failure is returned.
C13_AsStated ==
    (ReturnedNormally /\ deferErr \notin {"none", Nil})
        => \/ ret = deferErr
           \/ fnErr # Nil
           \/ commitErr \notin {"none", Nil}

\* C13 amended: the error of the deferred Rollback of View and Update is
\* always discarded: View returns exactly what fn returned, Update returns the
\* error of fn or else the result of Commit. In Update the deferred Rollback
\* fails only when such an earlier error is returned; in View, when fn returns
\* nil and the Rollback fails, the failure is not reported and View returns nil.
C13_RollbackErrorDropped ==
    ReturnedNormally
        => /\ ret = IF op = "View" \/ fnErr # Nil THEN fnErr ELSE commitErr
           /\ (op = "Update" /\ deferErr # Nil) => ret # Nil

\* View returned nil although its deferred Rollback failed.
C13_Witness ==
    /\ ReturnedNormally
    /\ op = "View"
    /\ fnErr = Nil
    /\ deferErr = ErrRollback
    /\ ret = Nil

\* C14: whenever the inner Query of Exec or QueryDocument, of DB or of Tx,
\* succeeds, its cursor has been closed exactly once when the operation
\* returns, whether First failed, no row came, the scan failed or all went well.
C14_CursorClosedOnce ==
    /\ (pc = "done" /\ op \in {"Exec", "QueryDocument"})
           => /\ DBQuery(pre, args.q, args.begin).err = Nil => cur.state # "none"
              /\ cur.state # "none" => (cur.state = "closed" /\ cur.closes = 1)
    /\ fnCall \in {"Exec", "QueryDocument"}
           => /\ callErr \in {Nil, ErrFirst, ErrDocumentNotFound} => cur.state # "none"
              /\ cur.state # "none" => (cur.state = "closed" /\ cur.closes = 1)

\* DB.QueryDocument left through the failed scan with its cursor closed once.
C14_Witness ==
    /\ pc = "done"
    /\ op = "QueryDocument"
    /\ ret = ErrScan
    /\ cur.state = "closed"
    /\ cur.closes = 1

\* C15: when fn returns nil and Update's Commit fails, the transaction is
\* still active after the failed Commit, the deferred Rollback then moves it to
\* rolled-back, nothing fn wrote is persisted, and Update returns the commit
\* error.
C15_FailedCommitRollsBack ==
    (op = "Update" /\ fnErr = Nil /\ commitErr = ErrCommit)
        => /\ store = pre
           /\ pc \in {"deferred", "done"}
           /\ ret = ErrCommit
           /\ pc = "deferred" => tx.state = "active"
           /\ pc = "done" => (tx.state = "rolledback" /\ rollbacks = 1 /\ resolved = 1)

\* Update returned the commit error after fn had written; nothing persisted.
C15_Witness ==
    /\ Returned("Update")
    /\ fnErr = Nil
    /\ commitErr = ErrCommit
    /\ tx.work # pre
    /\ tx.state = "rolledback"
    /\ store = pre

\* C16 as stated: if the callback of View or Update panics, the transaction
\* is still rolled back, Commit is never called and no transaction stays active.
C16_AsStated ==
    (pc = "done" /\ panicked) => (tx.state = "rolledback" /\ commits = 0)

\* C16 amended: if the callback of View or Update panics, the deferred
\* Rollback still runs, the helper never calls Commit, and no transaction is
\* left active; unless the callback itself committed the transaction before
\* panicking, the transaction ends rolled back with nothing persisted.
C16_PanicStillRollsBack ==
    (pc = "done" /\ panicked)
        => /\ commits = 0
           /\ rollbacks = 1
           /\ tx.state \in Terminal
           /\ txAtReturn # "committed" => (tx.state = "rolledback" /\ store = pre)

\* The callback of Update wrote, then panicked, and the transaction was rolled back.
C16_Witness ==
    /\ pc = "done"
    /\ panicked
    /\ op = "Update"
    /\ txAtReturn = "active"
    /\ tx.work # pre
    /\ tx.state = "rolledback"
    /\ store = pre

\* C17: a transaction is always in exactly one of the states active,
\* committed, rolled-back (none before Begin); within a call a terminal
\* transaction and the persisted state no longer change, whatever Commit and
\* Rollback calls the callback, Update's Commit and the deferred Rollback make;
\* a transaction fn rolled back is not committed by Update's Commit, and one fn
\* committed is not rolled back by the deferred Rollback.
C17_TerminalAbsorbing ==
    /\ [](tx.state \in {"none", "active", "committed", "rolledback"})
    /\ [][(tx.state \in Terminal /\ pc \notin {"done", "idle"})
              => (tx' = tx /\ store' = store)]_vars
    /\ []((Returned("Update") /\ txAtReturn = "rolledback")
              => (tx.state = "rolledback" /\ store = pre))
    /\ []((Returned("Update") /\ txAtReturn = "committed")
              => (tx.state = "committed" /\ store = tx.work))

\* fn rolled the transaction back and returned nil; Update's own Commit and
\* deferred Rollback then ran on it and it stayed rolled back.
C17_Witness ==
    /\ Returned("Update")
    /\ txAtReturn = "rolledback"
    /\ fnErr = Nil
    /\ commits = 1
    /\ rollbacks = 1
    /\ tx.work # pre
    /\ tx.state = "rolledback"

\* C18: a call of Tx.Query, Tx.Exec or Tx.QueryDocument by the callback runs
\* in the transaction it is called on: it begins no transaction, its cursor
\* owns none, it neither commits nor rolls back, and the transaction is in the
\* same state after the call as before, whether the call succeeded or failed.
C18_TxCallsKeepTransaction ==
    [][(pc = "fn" /\ pc' = "fn" /\ (fnCall' \in {"Query", "Exec", "QueryDocument"}))
           => /\ tx'.state = tx.state
              /\ tx'.writable = tx.writable
              /\ tx'.base = tx.base
              /\ ~cur'.implicit
              /\ store' = store
              /\ resolved' = resolved
              /\ lastTerm' = lastTerm]_vars

\* Tx.Exec wrote inside the active transaction, which is still active.
C18_Witness ==
    /\ pc = "fn"
    /\ op = "Update"
    /\ fnCall = "Exec"
    /\ callErr = Nil
    /\ tx.state = "active"
    /\ tx.work # tx.base
    /\ store = pre

\* C19: when Begin fails inside View, Update, ViewTable or UpdateTable, the
\* helper returns the Begin error, never invokes the callback (nor the table
\* lookup), and calls neither Commit nor Rollback.
C19_BeginFailureReturnsAtOnce ==
    (op \in {"View", "Update"} /\ ~args.begin)
        => /\ pc = "done"
           /\ ret = ErrBegin
           /\ tx = NoTx
           /\ ~fnInvoked
           /\ fnErr = "none"
           /\ fnCall = "none"
           /\ commits = 0
           /\ rollbacks = 0
           /\ store = pre

\* UpdateTable returned the Begin error without looking the table up.
C19_Witness ==
    /\ pc = "done"
    /\ op = "Update"
    /\ table = "users"
    /\ ~args.begin
    /\ ret = ErrBegin

----------------------------------------------------------------------------
(* Concurrent callers of DB.Update                                          *)
(*                                                                          *)
(* In this specification each caller makes one call of DB.Update; tx, pc,   *)
(* fnErr and ret hold one value per caller, store is the shared persisted   *)
(* state, and the engine admits one active read-write transaction at a time *)
(* and blocks Begin(true) while there is one (section 5).                   *)

Callers == 1..NumCallers

seqOnly == <<fnErr, op, pre, cur, doc, callErr, commits, rollbacks, resolved, txAtReturn,
             lastTerm, commitErr, fnCall, table, fnInvoked, deferErr, panicked, args>>

\* The engine holds a writer: some read-write transaction is still active.
WriterActive == \E d \in Callers : tx[d].state = "active" /\ tx[d].writable

\* The engine drops the working copy of a transaction that has ended.
Ended(t) == IF t.state \in Terminal THEN [t EXCEPT !.work = {}, !.base = {}] ELSE t

\* Once Update has returned its Tx is out of scope and the engine has let go
\* of a terminal transaction; one left active stays with the engine.
AfterReturn(t) == IF t.state \in Terminal THEN NoTx ELSE t

\* What the callbacks of concurrent callers run: each inserts the one document
\* all of them compete for, or reads.
ConcQueries == {q \in Queries : q.kind = "select" \/ (q.kind = "insert" /\ q.d = Min(Docs))}

InitConc ==
    /\ store = {}
    /\ tx = [c \in Callers |-> NoTx]
    /\ pc = [c \in Callers |-> "begin"]
    /\ fnErr = "none"
    /\ ret = [c \in Callers |-> "none"]
    /\ op = "Update"
    /\ pre = {}
    /\ cur = NoResult
    /\ doc = NilDoc
    /\ callErr = Nil
    /\ commits = 0
    /\ rollbacks = 0
    /\ resolved = 0
    /\ txAtReturn = "none"
    /\ lastTerm = NoTerm
    /\ commitErr = "none"
    /\ fnCall = "none"
    /\ table = "none"
    /\ fnInvoked = FALSE
    /\ deferErr = "none"
    /\ panicked = FALSE
    /\ args = NoArgs

\* Update: db.Begin(true), which the engine blocks while a writer is active.
ConcBegin(c, ok) ==
    /\ pc[c] = "begin"
    /\ ~WriterActive
    /\ LET b == Begin(UpdateWritable, ok, store)
       IN  /\ tx' = [tx EXCEPT ![c] = b.t]
           /\ ret' = [ret EXCEPT ![c] = IF b.err # Nil THEN b.err ELSE "none"]
           /\ pc' = [pc EXCEPT ![c] = AfterBegin(b.err, "none")]
    /\ UNCHANGED <<store, seqOnly>>

\* The callback of caller c runs a query through tx.Exec.
ConcFnExec(c, q) ==
    /\ pc[c] = "fn"
    /\ LET r == TxExec(tx[c], store, q)
       IN  /\ tx' = [tx EXCEPT ![c] = r.t]
           /\ store' = r.store
    /\ UNCHANGED <<pc, ret, seqOnly>>

\* The callback of caller c calls Commit on its transaction.
ConcFnCommit(c, ok) ==
    /\ pc[c] = "fn"
    /\ LET r == Commit(tx[c], store, ok)
       IN  /\ tx' = [tx EXCEPT ![c] = Ended(r.t)]
           /\ store' = r.store
    /\ UNCHANGED <<pc, ret, seqOnly>>

\* The callback of caller c calls Rollback on its transaction.
ConcFnRollback(c, ok) ==
    /\ pc[c] = "fn"
    /\ LET r == Rollback(tx[c], store, ok)
       IN  /\ tx' = [tx EXCEPT ![c] = Ended(r.t)]
           /\ store' = r.store
    /\ UNCHANGED <<pc, ret, seqOnly>>

\* The callback of caller c returns e.
ConcFnReturn(c, e) ==
    /\ pc[c] = "fn"
    /\ pc' = [pc EXCEPT ![c] = UpdateAfterFn(e)]
    /\ ret' = [ret EXCEPT ![c] = IF e # Nil THEN e ELSE "none"]
    /\ UNCHANGED <<store, tx, seqOnly>>

\* Update of caller c: return tx.Commit()
ConcCommit(c, ok) ==
    /\ pc[c] = "commit"
    /\ LET r == Commit(tx[c], store, ok)
       IN  /\ tx' = [tx EXCEPT ![c] = Ended(r.t)]
           /\ store' = r.store
           /\ ret' = [ret EXCEPT ![c] = UpdateReturn(r.err)]
    /\ pc' = [pc EXCEPT ![c] = "deferred"]
    /\ UNCHANGED seqOnly

\* Update of caller c: the deferred Rollback runs and the call returns.
ConcDeferred(c, ok) ==
    /\ pc[c] = "deferred"
    /\ LET r == UpdateDeferred(tx[c], store, ok)
       IN  /\ tx' = [tx EXCEPT ![c] = AfterReturn(r.t)]
           /\ store' = r.store
           /\ ret' = [ret EXCEPT ![c] = DeferredReturn(ret[c], r.err)]
    /\ pc' = [pc EXCEPT ![c] = "done"]
    /\ UNCHANGED seqOnly

NextConc ==
    \E c \in Callers :
        \/ \E ok \in BOOLEAN : ConcBegin(c, ok)
        \/ \E q \in ConcQueries : ConcFnExec(c, q)
        \/ \E ok \in BOOLEAN : ConcFnCommit(c, ok)
        \/ \E ok \in BOOLEAN : ConcFnRollback(c, ok)
        \/ \E e \in {Nil, ErrFn} : ConcFnReturn(c, e)
        \/ \E ok \in BOOLEAN : ConcCommit(c, ok)
        \/ \E ok \in BOOLEAN : ConcDeferred(c, ok)

\* Every caller that can take its next step of Update eventually takes it, and
\* every callback eventually returns.
FairConc ==
    \A c \in Callers :
        /\ WF_vars(\E ok \in BOOLEAN : ConcBegin(c, ok))
        /\ WF_vars(\E e \in {Nil, ErrFn} : ConcFnReturn(c, e))
        /\ WF_vars(\E ok \in BOOLEAN : ConcCommit(c, ok))
        /\ WF_vars(\E ok \in BOOLEAN : ConcDeferred(c, ok))

SpecConc == InitConc /\ [][NextConc]_vars /\ FairConc

\* The callers whose callback is running inside an active read-write transaction.
RunningWriters ==
    {c \in Callers : pc[c] = "fn" /\ tx[c].state = "active" /\ tx[c].writable}

\* C20: with several callers in DB.Update over an engine that admits one
\* active read-write transaction and blocks further writers, at most one
\* callback runs inside an active read-write transaction at any time, and,
\* every callback returning, every Update call eventually returns.
C20_OneWriterAndEveryUpdateReturns ==
    /\ [](Cardinality(RunningWriters) <= 1)
    /\ \A c \in Callers : (pc[c] # "done") ~> (pc[c] = "done")

\* One Update has committed new documents and returned, and a second caller,
\* admitted after it, runs its callback on top of them.
C20_Witness ==
    \E c, d \in Callers :
        /\ c # d
        /\ pc[c] = "done"
        /\ ret[c] = Nil
        /\ pc[d] = "fn"
        /\ tx[d].state = "active"
        /\ store # {}
        /\ tx[d].base = store

====
